---- MODULE Spec2Model ----
(***************************************************************************)
(* Model of the retrieval-augmented answer pipeline of the Enterprise      *)
(* Knowledge Assistant backend:                                            *)
(*   - KnowledgeService.chunk_text        (services/knowledge_service.py)  *)
(*   - KnowledgeService ingest/search/purge/re-index over the vector index *)
(*     and the document_embeddings table  (services/knowledge_service.py,  *)
(*     routers/knowledge.py, routers/chat.py)                              *)
(*   - AIService provider cascade and fallback (services/ai_service.py)    *)
(*                                                                         *)
(* Texts are TLA+ strings; Len, SubSeq and \o are used on them the way     *)
(* Python's len, slicing and + are used in the source.                     *)
(***************************************************************************)
EXTENDS Integers, Sequences, FiniteSets, TLC

VARIABLES
    \* ---- chunk_text call under test -----------------------------------
    text,            \* argument text
    chunk_size,      \* argument chunk_size
    overlap,         \* argument overlap
    chunks,          \* value returned by chunk_text (<<>> before the call)
    chunk_pc,        \* "ready" | "done" | "off"
    \* ---- AIService and one call of it ----------------------------------
    operation,       \* the method called: "generate_response" |
                     \* "generate_summary" | "categorize_document"
    settings,        \* the provider credentials read at construction
    providers,       \* self.providers, built by _initialize_providers
    relevant_docs,   \* argument relevant_docs
    context,         \* local context of generate_response
    system_prompt,   \* local system_prompt of generate_response
    gen_pc,          \* "idle" | "loop" | "await" | "hung" | "done" | "raised" | "off"
                     \* ("hung": awaiting a provider call that never completes)
                     \* ("raised": an exception left generate_response)
    gen_idx,         \* position of the for-loop in self.providers
    calls,           \* provider calls issued so far, with their outcomes
    last_error,      \* local last_error
    result,          \* value returned by generate_response
    \* ---- knowledge base: SQL tables, vector index, chat request --------
    documents,       \* table documents: id -> row
    embeddings,      \* table document_embeddings: set of rows
    collection,      \* Chroma collection "enterprise_knowledge": set of entries
    next_doc_id,     \* next value of the documents.id sequence
    chat_status,     \* send_message: "none" | "running" | "ok" | "http500" | "off"
    last_search,     \* history: what the index returned to the latest search
    purged,          \* history: documents whose latest vector-index operation
                     \* is a delete_document_from_vector_db that returned
    faults,          \* number of failed index or database calls so far
    reindexed        \* history: the latest operation on the knowledge base,
                     \* when it is an update_document_content that returned
                     \* (failed: the document whose update just failed after its
                     \* delete step; retried: this update follows such a failure)

chunkVars == <<text, chunk_size, overlap, chunks, chunk_pc>>

genVars == <<operation, settings, providers, relevant_docs, context,
             system_prompt, gen_pc, gen_idx, calls,
             last_error, result>>

kbVars == <<documents, embeddings, collection, next_doc_id, chat_status,
            last_search, purged, faults, reindexed>>

vars == <<chunkVars, genVars, kbVars>>

-----------------------------------------------------------------------------
(* Bounds of the model.                                                    *)

MaxTextLen == 7
MaxChunkSize == 4
MaxOverlap == 2
MaxSnippets == 6
MaxDocuments == 2
MaxUuid == 3
MaxDistance == 2
MaxResults == 2
MaxFaults == 1

-----------------------------------------------------------------------------
(* Python string primitives used by chunk_text.                            *)

Alphabet == {"a", ".", " "}

Whitespace == {" ", "\t", "\n"}

RECURSIVE Strings(_)
Strings(n) ==
    IF n = 0 THEN {""}
    ELSE LET shorter == Strings(n - 1)
         IN  shorter \cup {s \o c : s \in shorter, c \in Alphabet}

RECURSIVE Repeat(_, _)
Repeat(s, n) ==
    IF n = 0 THEN ""
    ELSE IF n % 2 = 1 THEN s \o Repeat(s, n - 1)
    ELSE LET half == Repeat(s, n \div 2) IN half \o half

Min(S) == CHOOSE m \in S : \A k \in S : m <= k

Max(S) == CHOOSE m \in S : \A k \in S : m >= k

\* positions at which the separator ". " starts (occurrences cannot overlap)
SeparatorPositions(s) ==
    {i \in 1..(Len(s) - 1) : SubSeq(s, i, i + 1) = ". "}

\* s.split('. ') scanning from position start
RECURSIVE SplitFrom(_, _)
SplitFrom(s, start) ==
    LET later == {p \in SeparatorPositions(s) : p >= start}
    IN  IF later = {}
        THEN <<SubSeq(s, start, Len(s))>>
        ELSE <<SubSeq(s, start, Min(later) - 1)>> \o SplitFrom(s, Min(later) + 2)

Split(s) == SplitFrom(s, 1)

\* s.strip(): leading and trailing whitespace removed
Strip(s) ==
    LET solid == {i \in 1..Len(s) : SubSeq(s, i, i) \notin Whitespace}
    IN  IF solid = {} THEN "" ELSE SubSeq(s, Min(solid), Max(solid))

\* s[-n:] for n >= 0; Python reads s[-0:] as s[0:], the whole string
NegSlice(s, n) ==
    IF n = 0 \/ n >= Len(s) THEN s ELSE SubSeq(s, Len(s) - n + 1, Len(s))

\* whether t occurs in s (t in s)
Contains(s, t) ==
    \E i \in 1..(Len(s) - Len(t) + 1) : SubSeq(s, i, i + Len(t) - 1) = t

-----------------------------------------------------------------------------
(* KnowledgeService.chunk_text                                             *)

DEFAULT_CHUNK_SIZE == 1000
DEFAULT_OVERLAP == 200

\* the for-loop over sentences, from sentence i on
RECURSIVE ChunkLoop(_, _, _, _, _, _)
ChunkLoop(sentences, i, acc, current_chunk, size, ovl) ==
    IF i > Len(sentences)
    THEN [chunks |-> acc, current_chunk |-> current_chunk]
    ELSE LET sentence == sentences[i]
             potential_chunk == current_chunk \o sentence \o ". "
         IN  IF Len(potential_chunk) <= size
             THEN ChunkLoop(sentences, i + 1, acc, potential_chunk, size, ovl)
             ELSE LET closed == IF current_chunk # ""
                                THEN Append(acc, Strip(current_chunk))
                                ELSE acc
                      seeded == IF Len(current_chunk) > ovl
                                THEN NegSlice(current_chunk, ovl) \o sentence \o ". "
                                ELSE sentence \o ". "
                  IN  ChunkLoop(sentences, i + 1, closed, seeded, size, ovl)

\* the same loop, from sentence i on, listing every point at which a chunk is
\* closed: the buffer that is flushed, the unit that did not fit, and the
\* buffer the next chunk is started with
RECURSIVE ChunkSeeds(_, _, _, _, _)
ChunkSeeds(sentences, i, current_chunk, size, ovl) ==
    IF i > Len(sentences)
    THEN <<>>
    ELSE LET sentence == sentences[i]
             potential_chunk == current_chunk \o sentence \o ". "
         IN  IF Len(potential_chunk) <= size
             THEN ChunkSeeds(sentences, i + 1, potential_chunk, size, ovl)
             ELSE LET seeded == IF Len(current_chunk) > ovl
                                THEN NegSlice(current_chunk, ovl) \o sentence \o ". "
                                ELSE sentence \o ". "
                      here == IF current_chunk # ""
                              THEN <<[buffer |-> current_chunk,
                                      closed |-> Strip(current_chunk),
                                      unit   |-> sentence,
                                      seeded |-> seeded]>>
                              ELSE <<>>
                  IN  here \o ChunkSeeds(sentences, i + 1, seeded, size, ovl)

\* chunk_text without the flush of the last buffer after the loop
ChunkTextForgetsLastChunk(t, size, ovl) ==
    IF t = "" THEN <<>>
    ELSE ChunkLoop(Split(t), 1, <<>>, "", size, ovl).chunks

ChunkText(t, size, ovl) ==
    IF t = "" THEN <<>>
    ELSE LET r == ChunkLoop(Split(t), 1, <<>>, "", size, ovl)
         IN  IF r.current_chunk # ""
             THEN Append(r.chunks, Strip(r.current_chunk))
             ELSE r.chunks


-----------------------------------------------------------------------------
(* AIService: provider list, cascade and fallback.                         *)

\* Python's None
None == "<None>"

\* Python truthiness of an Optional[str]
Truthy(v) == v # None /\ v # ""

KeyNames == {"OPENAI_API_KEY", "ANTHROPIC_API_KEY", "OPENROUTER_API_KEY",
             "GROQ_API_KEY"}

Placeholder(k) ==
    CASE k = "OPENAI_API_KEY"     -> "your-openai-api-key"
      [] k = "ANTHROPIC_API_KEY"  -> "your-anthropic-api-key"
      [] k = "OPENROUTER_API_KEY" -> "your-openrouter-api-key"
      [] k = "GROQ_API_KEY"       -> "your-groq-api-key"

\* every credential is unset, the template placeholder, or a real key
SettingsSpace ==
    {s \in [KeyNames \cup {"GROQ_ALTERNATIVE_MODEL"} ->
                {None, "sk-live", "mixtral-8x7b-32768"}
                    \cup {Placeholder(k) : k \in KeyNames}] :
        /\ \A k \in KeyNames : s[k] \in {None, Placeholder(k), "sk-live"}
        /\ s["GROQ_ALTERNATIVE_MODEL"] \in {None, "mixtral-8x7b-32768"}}

Configured(s, k) == Truthy(s[k]) /\ s[k] # Placeholder(k)

Binding(name, model, type) == [name |-> name, model |-> model, type |-> type]

InitializeProviders(s) ==
    (IF Configured(s, "OPENAI_API_KEY")
        THEN <<Binding("openai", "gpt-4", "openai")>> ELSE <<>>)
    \o (IF Configured(s, "ANTHROPIC_API_KEY")
        THEN <<Binding("anthropic", "claude-3-5-sonnet-20241022", "anthropic")>>
        ELSE <<>>)
    \o (IF Configured(s, "OPENROUTER_API_KEY")
        THEN <<Binding("openrouter-gpt4", "openai/gpt-4", "openai")>> ELSE <<>>)
    \o (IF Configured(s, "OPENROUTER_API_KEY")
        THEN <<Binding("openrouter-claude", "anthropic/claude-3.5-sonnet", "openai")>>
        ELSE <<>>)
    \o (IF Configured(s, "GROQ_API_KEY")
        THEN <<Binding("groq-llama", "llama-3.3-70b-versatile", "openai")>>
        ELSE <<>>)
    \o (IF Truthy(s["GROQ_API_KEY"]) /\ Truthy(s["GROQ_ALTERNATIVE_MODEL"])
        THEN <<Binding("groq-alternative", s["GROQ_ALTERNATIVE_MODEL"], "openai")>>
        ELSE <<>>)

\* dict.get(key, default)
Get(doc, key, default) == IF key \in DOMAIN doc THEN doc[key] ELSE default

\* relevant_docs[:n]
Take(seq, n) == SubSeq(seq, 1, IF Len(seq) < n THEN Len(seq) ELSE n)

\* _extract_sources with the cut of _build_context (five) instead of three
ExtractSourcesTopFive(docs) ==
    [i \in 1..Len(Take(docs, 5)) |->
        [title     |-> Get(docs[i], "title", "Untitled"),
         type      |-> Get(docs[i], "category", "document"),
         relevance |-> Get(docs[i], "relevance_score", 0)]]

ExtractSources(docs) ==
    [i \in 1..Len(Take(docs, 3)) |->
        [title     |-> Get(docs[i], "title", "Untitled"),
         type      |-> Get(docs[i], "category", "document"),
         relevance |-> Get(docs[i], "relevance_score", 0)]]

\* "\n".join(parts)
RECURSIVE JoinNewline(_)
JoinNewline(parts) ==
    IF Len(parts) = 0 THEN ""
    ELSE IF Len(parts) = 1 THEN parts[1]
    ELSE parts[1] \o "\n" \o JoinNewline(Tail(parts))

\* _build_context without the truncation of long contents
BuildContextUncut(docs) ==
    IF Len(docs) = 0 THEN ""
    ELSE JoinNewline([i \in 1..Len(Take(docs, 5)) |->
             "Document: " \o Get(docs[i], "title", "Untitled")
                 \o "\nContent: " \o Get(docs[i], "content", "") \o "\n"])

\* _build_context
BuildContext(docs) ==
    IF Len(docs) = 0 THEN ""
    ELSE JoinNewline([i \in 1..Len(Take(docs, 5)) |->
             LET title == Get(docs[i], "title", "Untitled")
                 content == Get(docs[i], "content", "")
                 shown == IF Len(content) > 1000
                          THEN SubSeq(content, 1, 1000) \o "..."
                          ELSE content
             IN  "Document: " \o title \o "\nContent: " \o shown \o "\n"])

base_prompt ==
    "You are an Enterprise Knowledge Assistant, an AI assistant designed to help employees find information from the company's knowledge base.\n\nYour responsibilities:\n1. Answer questions accurately based on the provided context\n2. Be helpful, professional, and concise\n3. If information is not in the context, clearly state that\n4. Provide specific references to documents when possible\n5. Ask clarifying questions if the user's request is unclear\n\nGuidelines:\n- Always be honest about what you know and don't know\n- Maintain a professional tone\n- Provide actionable information when possible\n- If you reference specific policies or procedures, mention the source document\n"

\* _create_system_prompt
CreateSystemPrompt(ctx) ==
    IF ctx # ""
    THEN base_prompt \o "\n\nKnowledge Base Context:\n" \o ctx
             \o "\n\nPlease answer the user's question based on this context."
    ELSE base_prompt
             \o "\n\nNo specific context documents were found for this query. Please provide a helpful general response and suggest how the user might find more specific information."

\* ', '.join(titles)
RECURSIVE JoinComma(_)
JoinComma(titles) ==
    IF Len(titles) = 0 THEN ""
    ELSE IF Len(titles) = 1 THEN titles[1]
    ELSE titles[1] \o ", " \o JoinComma(Tail(titles))

NoProvidersText ==
    "No AI providers are configured. Please contact your administrator to set up API keys for OpenAI, Anthropic Claude, OpenRouter, or Groq."

\* _generate_fallback_response without its "if not self.providers" branch
GenerateFallbackResponseGenericOnly(provs, docs, error) ==
    [message    |-> "I'm temporarily unable to process your request due to technical issues."
                        \o " Please try again later or contact support if the issue persists.",
     sources    |-> IF Len(docs) > 0 THEN ExtractSources(docs) ELSE <<>>,
     model_used |-> "fallback",
     provider   |-> "fallback"]

\* _generate_fallback_response whose "API key" message leaves context_info out
GenerateFallbackResponseNoTitles(provs, docs, error) ==
    LET generic == GenerateFallbackResponseGenericOnly(provs, docs, error)
        context_info ==
            IF Len(docs) > 0
            THEN " I found some relevant documents: "
                     \o JoinComma([i \in 1..Len(Take(docs, 3)) |->
                                     Get(docs[i], "title", "Untitled")]) \o "."
            ELSE ""
    IN  [generic EXCEPT !.message =
            IF Len(provs) = 0
            THEN NoProvidersText \o context_info
            ELSE IF error # None /\ Contains(error, "API key")
            THEN "I'm currently unable to process your request because all configured AI providers failed."
                     \o " Please contact your administrator to verify API keys."
            ELSE "I'm temporarily unable to process your request due to technical issues."
                     \o context_info
                     \o " Please try again later or contact support if the issue persists."]

\* _generate_fallback_response whose generic message quotes the error
GenerateFallbackResponseShowsError(provs, docs, error) ==
    LET doc_titles == [i \in 1..Len(Take(docs, 3)) |->
                          Get(docs[i], "title", "Untitled")]
        context_info == IF Len(docs) > 0
                        THEN " I found some relevant documents: "
                                 \o JoinComma(doc_titles) \o "."
                        ELSE ""
        message ==
            IF Len(provs) = 0
            THEN NoProvidersText \o context_info
            ELSE IF error # None /\ Contains(error, "API key")
            THEN "I'm currently unable to process your request because all configured AI providers failed."
                     \o context_info
                     \o " Please contact your administrator to verify API keys."
            ELSE "I'm temporarily unable to process your request due to technical issues"
                     \o (IF error # None THEN " (" \o error \o ")." ELSE ".")
                     \o context_info
                     \o " Please try again later or contact support if the issue persists."
    IN  [message    |-> message,
         sources    |-> IF Len(docs) > 0 THEN ExtractSources(docs) ELSE <<>>,
         model_used |-> "fallback",
         provider   |-> "fallback"]

\* _generate_fallback_response (response_time, a wall-clock reading, is left out)
GenerateFallbackResponse(provs, docs, error) ==
    LET doc_titles == [i \in 1..Len(Take(docs, 3)) |->
                          Get(docs[i], "title", "Untitled")]
        context_info == IF Len(docs) > 0
                        THEN " I found some relevant documents: "
                                 \o JoinComma(doc_titles) \o "."
                        ELSE ""
        sources == IF Len(docs) > 0 THEN ExtractSources(docs) ELSE <<>>
        message ==
            IF Len(provs) = 0
            THEN NoProvidersText \o context_info
            ELSE IF error # None /\ Contains(error, "API key")
            THEN "I'm currently unable to process your request because all configured AI providers failed."
                     \o context_info
                     \o " Please contact your administrator to verify API keys."
            ELSE "I'm temporarily unable to process your request due to technical issues."
                     \o context_info
                     \o " Please try again later or contact support if the issue persists."
    IN  [message    |-> message,
         sources    |-> sources,
         model_used |-> "fallback",
         provider   |-> "fallback"]

\* SuccessResponse reporting the model id where the binding's name belongs
SuccessResponseReportsModel(provider, response, docs) ==
    [message    |-> response,
     sources    |-> IF Len(docs) > 0 THEN ExtractSources(docs) ELSE <<>>,
     model_used |-> provider.model,
     provider   |-> provider.model]

\* the dict returned at the first truthy response
SuccessResponse(provider, response, docs) ==
    [message    |-> response,
     sources    |-> IF Len(docs) > 0 THEN ExtractSources(docs) ELSE <<>>,
     model_used |-> provider.model,
     provider   |-> provider.name]

\* what an awaited provider call can do: raise an exception with some text, or
\* return the completion text, which may be None or empty
ErrorTexts == {"Incorrect API key provided", "Connection timed out"}

AnswerTexts == {"Answer A", "Answer B"}

Outcomes ==
    [kind : {"raise"}, value : ErrorTexts]
        \cup [kind : {"return"}, value : {None, ""} \cup AnswerTexts]

Pending == [kind |-> "pending", value |-> None]

Succeeded(o) == o.kind = "return" /\ Truthy(o.value)

NoResult == [message |-> None, sources |-> <<>>, model_used |-> None,
             provider |-> None]

\* retrieved snippets handed to generate_response
SnippetTitles == <<"HR Policy", "Travel Guide", "IT Manual", "Leave Rules",
                   "VPN Setup", "Expense Form">>

\* the i-th retrieved snippet; every third one lacks the optional keys, and
\* the contents run from a few characters to 1000 characters and beyond
Snippet(i) ==
    LET title == SnippetTitles[((i - 1) % Len(SnippetTitles)) + 1]
        content == CASE i % 4 = 2 -> "text " \o title \o Repeat("x", 1000) \o " end"
                     [] i % 4 = 0 -> Repeat("y", 1000)
                     [] OTHER     -> "text " \o title
    IN  IF i % 3 = 0
        THEN [content |-> content]
        ELSE [title |-> title,
              category |-> IF i % 2 = 0 THEN "guide" ELSE "policy",
              content |-> content,
              relevance_score |-> 1 - (i % 3)]

SnippetLists == {[i \in 1..n |-> Snippet(i)] : n \in 0..MaxSnippets}

GenInit ==
    /\ operation = "generate_response"
    /\ settings \in SettingsSpace
    /\ providers = InitializeProviders(settings)
    /\ relevant_docs \in SnippetLists
    /\ context = ""
    /\ system_prompt = ""
    /\ gen_pc = "idle"
    /\ gen_idx = 0
    /\ calls = <<>>
    /\ last_error = None
    /\ result = NoResult

GenParked ==
    /\ operation = None
    /\ settings = [k \in KeyNames \cup {"GROQ_ALTERNATIVE_MODEL"} |-> None]
    /\ providers = <<>>
    /\ relevant_docs = <<>>
    /\ context = ""
    /\ system_prompt = ""
    /\ gen_pc = "off"
    /\ gen_idx = 0
    /\ calls = <<>>
    /\ last_error = None
    /\ result = NoResult

\* generate_response entered: the context and the system prompt are built,
\* last_error = None, the for-loop starts
GenerateResponseStart ==
    /\ gen_pc = "idle"
    /\ context' = (IF Len(relevant_docs) > 0 THEN BuildContext(relevant_docs) ELSE "")
    /\ system_prompt' = CreateSystemPrompt(context')
    /\ gen_pc' = "loop"
    /\ gen_idx' = 1
    /\ last_error' = None
    /\ UNCHANGED <<operation, settings, providers, relevant_docs, calls, result>>
    /\ UNCHANGED <<chunkVars, kbVars>>

\* the loop awaits _call_provider for the current binding
IssueProviderCall ==
    /\ gen_pc = "loop"
    /\ gen_idx <= Len(providers)
    /\ calls' = Append(calls, [name |-> providers[gen_idx].name, outcome |-> Pending])
    /\ gen_pc' = "await"
    /\ UNCHANGED <<operation, settings, providers, context, system_prompt, relevant_docs, gen_idx, last_error, result>>
    /\ UNCHANGED <<chunkVars, kbVars>>

\* ProviderCallCompletes trying the first binding a second time after it failed
ProviderCallCompletesRetries ==
    /\ gen_pc = "await"
    /\ \E o \in Outcomes :
          /\ calls' = [calls EXCEPT ![Len(calls)].outcome = o]
          /\ IF Succeeded(o)
             THEN /\ result' = SuccessResponse(providers[gen_idx], o.value, relevant_docs)
                  /\ gen_pc' = "done"
                  /\ UNCHANGED <<gen_idx, last_error>>
             ELSE /\ last_error' = IF o.kind = "raise" THEN o.value ELSE last_error
                  /\ gen_idx' = IF Len(calls) = 1 THEN gen_idx ELSE gen_idx + 1
                  /\ gen_pc' = "loop"
                  /\ UNCHANGED result
    /\ UNCHANGED <<operation, settings, providers, context, system_prompt, relevant_docs>>
    /\ UNCHANGED <<chunkVars, kbVars>>

\* ProviderCallCompletes keeping the first exception's text, not the last
ProviderCallCompletesKeepsFirstError ==
    /\ gen_pc = "await"
    /\ \E o \in Outcomes :
          /\ calls' = [calls EXCEPT ![Len(calls)].outcome = o]
          /\ IF Succeeded(o)
             THEN /\ result' = SuccessResponse(providers[gen_idx], o.value, relevant_docs)
                  /\ gen_pc' = "done"
                  /\ UNCHANGED <<gen_idx, last_error>>
             ELSE /\ last_error' = IF o.kind = "raise" /\ last_error = None
                                   THEN o.value ELSE last_error
                  /\ gen_idx' = gen_idx + 1
                  /\ gen_pc' = "loop"
                  /\ UNCHANGED result
    /\ UNCHANGED <<operation, settings, providers, context, system_prompt, relevant_docs>>
    /\ UNCHANGED <<chunkVars, kbVars>>

\* the awaited call completes: a truthy response is returned at once, an
\* exception is recorded in last_error, and otherwise the loop moves on
ProviderCallCompletes ==
    /\ gen_pc = "await"
    /\ \E o \in Outcomes :
          /\ calls' = [calls EXCEPT ![Len(calls)].outcome = o]
          /\ IF Succeeded(o)
             THEN /\ result' = SuccessResponse(providers[gen_idx], o.value, relevant_docs)
                  /\ gen_pc' = "done"
                  /\ UNCHANGED <<gen_idx, last_error>>
             ELSE /\ last_error' = IF o.kind = "raise" THEN o.value ELSE last_error
                  /\ gen_idx' = gen_idx + 1
                  /\ gen_pc' = "loop"
                  /\ UNCHANGED result
    /\ UNCHANGED <<operation, settings, providers, context, system_prompt, relevant_docs>>
    /\ UNCHANGED <<chunkVars, kbVars>>

\* the provider never answers the awaited call.  _call_provider awaits the
\* client's create() with no timeout of its own (no asyncio.wait_for, no
\* timeout argument), so the coroutine stays suspended at the await
ProviderNeverAnswers ==
    /\ gen_pc = "await"
    /\ gen_pc' = "hung"
    /\ UNCHANGED <<operation, settings, providers, context, system_prompt,
                   relevant_docs, gen_idx, calls, last_error, result>>
    /\ UNCHANGED <<chunkVars, kbVars>>

\* the exhausted loop raising, as generate_summary and categorize_document do
ReturnFallbackRaises ==
    /\ gen_pc = "loop"
    /\ gen_idx > Len(providers)
    /\ gen_pc' = "raised"
    /\ UNCHANGED <<operation, settings, providers, context, system_prompt, relevant_docs, gen_idx, calls, last_error, result>>
    /\ UNCHANGED <<chunkVars, kbVars>>

\* the loop is exhausted: return self._generate_fallback_response(...)
ReturnFallback ==
    /\ gen_pc = "loop"
    /\ gen_idx > Len(providers)
    /\ result' = GenerateFallbackResponse(providers, relevant_docs, last_error)
    /\ gen_pc' = "done"
    /\ UNCHANGED <<operation, settings, providers, context, system_prompt, relevant_docs, gen_idx, calls, last_error>>
    /\ UNCHANGED <<chunkVars, kbVars>>

-----------------------------------------------------------------------------
(* AIService.generate_summary and AIService.categorize_document: the same  *)
(* cascade over self.providers, without a fallback.                        *)

UpperCase == "ABCDEFGHIJKLMNOPQRSTUVWXYZ"

LowerCase == "abcdefghijklmnopqrstuvwxyz"

\* s.lower()
RECURSIVE Lower(_)
Lower(s) ==
    IF s = "" THEN ""
    ELSE LET c == SubSeq(s, 1, 1)
             up == {i \in 1..Len(UpperCase) : SubSeq(UpperCase, i, i) = c}
             lc == IF up = {} THEN c
                   ELSE SubSeq(LowerCase, Min(up), Min(up))
         IN  lc \o Lower(SubSeq(s, 2, Len(s)))

valid_categories == {"policy", "procedure", "manual", "guide", "other"}

\* categorize_document returning the provider's category unchecked
CategoryOfUnchecked(content) == Lower(Strip(content))

\* category = content.strip().lower();
\* result = category if category in valid_categories else "other"
CategoryOf(content) ==
    LET category == Lower(Strip(content))
    IN  IF category \in valid_categories THEN category ELSE "other"

\* result = content.strip()
SummaryOf(content) == Strip(content)

\* what the completion of a provider can hold
ReplyTexts == {None, "", "policy", " Guide\n", "PROCEDURE", "invalid_category",
               "Policy.", "The document sets out the leave rules. "}

DocOutcomes ==
    [kind : {"raise"}, value : ErrorTexts] \cup [kind : {"return"}, value : ReplyTexts]

\* content.strip() on a completion without content raises AttributeError
NoneTypeError == "'NoneType' object has no attribute 'strip'"

DocResult(v) == [value |-> v]

\* the method is entered; without providers it raises at once
CascadeStart ==
    /\ gen_pc = "idle"
    /\ IF Len(providers) = 0
       THEN /\ gen_pc' = "raised"
            /\ last_error' = "No AI providers configured"
            /\ UNCHANGED gen_idx
       ELSE /\ gen_pc' = "loop"
            /\ gen_idx' = 1
            /\ last_error' = None
    /\ UNCHANGED <<operation, settings, providers, context, system_prompt, relevant_docs, calls, result>>
    /\ UNCHANGED <<chunkVars, kbVars>>

\* the loop awaits the completion of the current binding
CascadeIssueCall ==
    /\ gen_pc = "loop"
    /\ gen_idx <= Len(providers)
    /\ calls' = Append(calls, [name |-> providers[gen_idx].name, outcome |-> Pending])
    /\ gen_pc' = "await"
    /\ UNCHANGED <<operation, settings, providers, context, system_prompt, relevant_docs, gen_idx, last_error, result>>
    /\ UNCHANGED <<chunkVars, kbVars>>

\* the awaited call completes: the first reply that does not raise is
\* returned, whatever its text; an exception is recorded and the loop moves on
CascadeCallCompletes(op) ==
    /\ gen_pc = "await"
    /\ \E o \in DocOutcomes :
          /\ calls' = [calls EXCEPT ![Len(calls)].outcome = o]
          /\ IF o.kind = "return" /\ o.value # None
             THEN /\ result' = DocResult(IF op = "categorize_document"
                                             THEN CategoryOf(o.value)
                                             ELSE SummaryOf(o.value))
                  /\ gen_pc' = "done"
                  /\ UNCHANGED <<gen_idx, last_error>>
             ELSE /\ last_error' = IF o.kind = "raise" THEN o.value ELSE NoneTypeError
                  /\ gen_idx' = gen_idx + 1
                  /\ gen_pc' = "loop"
                  /\ UNCHANGED result
    /\ UNCHANGED <<operation, settings, providers, context, system_prompt, relevant_docs>>
    /\ UNCHANGED <<chunkVars, kbVars>>

\* the loop is exhausted:
\* raise Exception(f"All AI providers failed. Last error: {last_error}")
CascadeAllFailed ==
    /\ gen_pc = "loop"
    /\ gen_idx > Len(providers)
    /\ gen_pc' = "raised"
    /\ UNCHANGED <<operation, settings, providers, context, system_prompt, relevant_docs, gen_idx, calls,
                   last_error, result>>
    /\ UNCHANGED <<chunkVars, kbVars>>

GenerateSummaryStart ==
    /\ operation = "generate_summary"
    /\ CascadeStart

GenerateSummaryIssueCall ==
    /\ operation = "generate_summary"
    /\ CascadeIssueCall

GenerateSummaryCallCompletes ==
    /\ operation = "generate_summary"
    /\ CascadeCallCompletes("generate_summary")

GenerateSummaryAllFailed ==
    /\ operation = "generate_summary"
    /\ CascadeAllFailed

CategorizeDocumentStart ==
    /\ operation = "categorize_document"
    /\ CascadeStart

CategorizeDocumentIssueCall ==
    /\ operation = "categorize_document"
    /\ CascadeIssueCall

CategorizeDocumentCallCompletes ==
    /\ operation = "categorize_document"
    /\ CascadeCallCompletes("categorize_document")

CategorizeDocumentAllFailed ==
    /\ operation = "categorize_document"
    /\ CascadeAllFailed

DocInit ==
    /\ operation \in {"generate_summary", "categorize_document"}
    /\ settings \in SettingsSpace
    /\ providers = InitializeProviders(settings)
    /\ relevant_docs = <<>>
    /\ context = ""
    /\ system_prompt = ""
    /\ gen_pc = "idle"
    /\ gen_idx = 0
    /\ calls = <<>>
    /\ last_error = None
    /\ result = NoResult

-----------------------------------------------------------------------------
(* KnowledgeService over the SQL session and the Chroma collection.        *)
(* A call of the Chroma client or of the SQL session either takes effect   *)
(* or raises; "fault" names the call that raises, "none" when none does.   *)

\* f"doc_{document.id}_chunk_{i}_{uuid.uuid4().hex[:8]}"
ChunkId(doc_id, i, uuid) == <<"doc", doc_id, "chunk", i, uuid>>

UsedIds(coll, embs) == {e.id : e \in coll} \cup {r.embedding_id : r \in embs}

\* uuid4 gives a value not seen before; which one is immaterial, so the least
\* unused one stands for it
FreshUuid(coll, embs, doc_id, i) ==
    Min({u \in 1..MaxUuid : ChunkId(doc_id, i, u) \notin UsedIds(coll, embs)})

CanMintIds(coll, embs, doc_id, n) ==
    \A i \in 0..(n - 1) :
        \E u \in 1..MaxUuid : ChunkId(doc_id, i, u) \notin UsedIds(coll, embs)

\* add_document_to_vector_db numbering its chunks from 1
AddDocumentToVectorDbOneBased(coll, embs, doc_id, row, content_chunks, fault) ==
    LET n == Len(content_chunks)
        chunk_id(i) == ChunkId(doc_id, i, FreshUuid(coll, embs, doc_id, i))
        entries == {[id       |-> chunk_id(i),
                     document |-> content_chunks[i],
                     metadata |-> [document_id |-> doc_id,
                                   title       |-> row.title,
                                   category    |-> row.category,
                                   chunk_index |-> i,
                                   filename    |-> row.filename]] : i \in 1..n}
        rows == {[document_id  |-> doc_id,
                  chunk_text   |-> content_chunks[i],
                  chunk_index  |-> i,
                  embedding_id |-> chunk_id(i)] : i \in 1..n}
    IN  CASE fault = "add_index" ->
                [collection |-> coll, embeddings |-> embs, raised |-> TRUE]
          [] fault = "add_commit" ->
                [collection |-> coll \cup entries, embeddings |-> embs, raised |-> TRUE]
          [] OTHER ->
                [collection |-> coll \cup entries, embeddings |-> embs \cup rows,
                 raised |-> FALSE]

\* add_document_to_vector_db storing in each row the id minted for the next
\* chunk index instead of the id its entry was written under
AddDocumentToVectorDbOtherRowIds(coll, embs, doc_id, row, content_chunks, fault) ==
    LET n == Len(content_chunks)
        chunk_id(i) == ChunkId(doc_id, i, FreshUuid(coll, embs, doc_id, i))
        entries == {[id       |-> chunk_id(i - 1),
                     document |-> content_chunks[i],
                     metadata |-> [document_id |-> doc_id,
                                   title       |-> row.title,
                                   category    |-> row.category,
                                   chunk_index |-> i - 1,
                                   filename    |-> row.filename]] : i \in 1..n}
        rows == {[document_id  |-> doc_id,
                  chunk_text   |-> content_chunks[i],
                  chunk_index  |-> i - 1,
                  embedding_id |-> chunk_id(i)] : i \in 1..n}
    IN  CASE fault = "add_index" ->
                [collection |-> coll, embeddings |-> embs, raised |-> TRUE]
          [] fault = "add_commit" ->
                [collection |-> coll \cup entries, embeddings |-> embs, raised |-> TRUE]
          [] OTHER ->
                [collection |-> coll \cup entries, embeddings |-> embs \cup rows,
                 raised |-> FALSE]

\* add_document_to_vector_db: the rows are added to the session, the entries
\* are written to Chroma, the session is committed; on an exception the session
\* is rolled back and the exception is raised again
AddDocumentToVectorDb(coll, embs, doc_id, row, content_chunks, fault) ==
    LET n == Len(content_chunks)
        chunk_id(i) == ChunkId(doc_id, i, FreshUuid(coll, embs, doc_id, i))
        entries == {[id       |-> chunk_id(i - 1),
                     document |-> content_chunks[i],
                     metadata |-> [document_id |-> doc_id,
                                   title       |-> row.title,
                                   category    |-> row.category,
                                   chunk_index |-> i - 1,
                                   filename    |-> row.filename]] : i \in 1..n}
        rows == {[document_id  |-> doc_id,
                  chunk_text   |-> content_chunks[i],
                  chunk_index  |-> i - 1,
                  embedding_id |-> chunk_id(i - 1)] : i \in 1..n}
    IN  CASE fault = "add_index" ->
                [collection |-> coll, embeddings |-> embs, raised |-> TRUE]
          [] fault = "add_commit" ->
                [collection |-> coll \cup entries, embeddings |-> embs, raised |-> TRUE]
          [] OTHER ->
                [collection |-> coll \cup entries, embeddings |-> embs \cup rows,
                 raised |-> FALSE]

\* delete_document_from_vector_db without its collection.delete call
DeleteDocumentFromVectorDbKeepsEntries(coll, embs, doc_id, fault) ==
    LET rows == {r \in embs : r.document_id = doc_id}
    IN  CASE fault \in {"delete_query", "delete_commit"} ->
                [collection |-> coll, embeddings |-> embs, raised |-> TRUE]
          [] OTHER ->
                [collection |-> coll, embeddings |-> embs \ rows, raised |-> FALSE]

\* delete_document_from_vector_db whose query for the rows has no filter on
\* document_id
DeleteDocumentFromVectorDbAnyDocument(coll, embs, doc_id, fault) ==
    LET rows == embs
        chunk_ids == {r.embedding_id : r \in rows}
        remaining == {e \in coll : e.id \notin chunk_ids}
    IN  CASE fault = "delete_query" ->
                [collection |-> coll, embeddings |-> embs, raised |-> TRUE]
          [] fault = "delete_index" /\ chunk_ids # {} ->
                [collection |-> coll, embeddings |-> embs, raised |-> TRUE]
          [] fault = "delete_commit" ->
                [collection |-> remaining, embeddings |-> embs, raised |-> TRUE]
          [] OTHER ->
                [collection |-> remaining, embeddings |-> embs \ rows,
                 raised |-> FALSE]

\* delete_document_from_vector_db: the rows of the document are read, their
\* ids are deleted from Chroma (only when there are any), the rows are deleted
\* and the session is committed; on an exception rollback and raise
DeleteDocumentFromVectorDb(coll, embs, doc_id, fault) ==
    LET rows == {r \in embs : r.document_id = doc_id}
        chunk_ids == {r.embedding_id : r \in rows}
        remaining == {e \in coll : e.id \notin chunk_ids}
    IN  CASE fault = "delete_query" ->
                [collection |-> coll, embeddings |-> embs, raised |-> TRUE]
          [] fault = "delete_index" /\ chunk_ids # {} ->
                [collection |-> coll, embeddings |-> embs, raised |-> TRUE]
          [] fault = "delete_commit" ->
                [collection |-> remaining, embeddings |-> embs, raised |-> TRUE]
          [] OTHER ->
                [collection |-> remaining, embeddings |-> embs \ rows,
                 raised |-> FALSE]

AddFaults == {"none", "add_index", "add_commit"}

DeleteFaults == {"none", "delete_query", "delete_index", "delete_commit"}

\* collection.query(query_texts, n_results, where): the n_results nearest
\* entries that match the filter, nearest first, each with its distance.
\* Which entries are nearest depends on the embedding of the query text.
Injective(f) == \A i, j \in DOMAIN f : f[i][1] = f[j][1] => i = j

Ascending(f) == \A i, j \in DOMAIN f : i <= j => f[i][2] <= f[j][2]

QueryResults(coll, n_results, where) ==
    LET matching == IF where = None THEN coll
                    ELSE {e \in coll : e.metadata.category = where}
        k == IF Cardinality(matching) < n_results
             THEN Cardinality(matching) ELSE n_results
    IN  {f \in [1..k -> matching \X (0..MaxDistance)] : Injective(f) /\ Ascending(f)}

\* the loop of search_documents over the hits
SnippetOf(docs, hit) ==
    [id              |-> hit[1].metadata.document_id,
     title           |-> docs[hit[1].metadata.document_id].title,
     category        |-> docs[hit[1].metadata.document_id].category,
     content         |-> hit[1].document,
     relevance_score |-> 1 - hit[2],
     chunk_index     |-> Get(hit[1].metadata, "chunk_index", 0),
     filename        |-> docs[hit[1].metadata.document_id].filename]

RECURSIVE ProcessHits(_, _)
ProcessHits(docs, hits) ==
    IF Len(hits) = 0 THEN <<>>
    ELSE (IF hits[1][1].metadata.document_id \in DOMAIN docs
          THEN <<SnippetOf(docs, hits[1])>> ELSE <<>>)
         \o ProcessHits(docs, Tail(hits))

SearchFaults == {"none", "search_index", "search_db"}

\* search_documents giving up on the whole result at the first stale hit
SearchDocumentsStaleAborts(docs, hits, fault) ==
    IF fault # "none" \/ \E i \in 1..Len(hits) :
                            hits[i][1].metadata.document_id \notin DOMAIN docs
    THEN [raised |-> FALSE, documents |-> <<>>]
    ELSE [raised |-> FALSE, documents |-> ProcessHits(docs, hits)]

\* search_documents without its except clause
SearchDocumentsNoExcept(docs, hits, fault) ==
    IF fault # "none"
    THEN [raised |-> TRUE, documents |-> <<>>]
    ELSE [raised |-> FALSE, documents |-> ProcessHits(docs, hits)]

\* search_documents: any exception of the query or of a document lookup is
\* caught and [] is returned
SearchDocuments(docs, hits, fault) ==
    IF fault # "none"
    THEN [raised |-> FALSE, documents |-> <<>>]
    ELSE [raised |-> FALSE, documents |-> ProcessHits(docs, hits)]

\* os.path.splitext(filename)[0]
Stem(filename) ==
    LET dots == {i \in 2..Len(filename) : SubSeq(filename, i, i) = "."}
    IN  IF dots = {} THEN filename ELSE SubSeq(filename, 1, Max(dots) - 1)

\* uploaded files: extracted text and the category of the upload form
ShortText == "Leave is 20 days. Ask HR"

LongText == Repeat("a", 600) \o ". " \o Repeat("b", 600)

Uploads ==
    {[filename |-> "leave.txt", content |-> ShortText, category |-> "policy"],
     [filename |-> "vpn.setup.md", content |-> LongText, category |-> "guide"]}

NewContents == {ShortText, LongText, ""}

\* chunk_text(content) with its default chunk_size and overlap, tabulated once
\* over the texts of this model
DefaultChunks ==
    [t \in NewContents \cup {up.content : up \in Uploads} |->
        ChunkText(t, DEFAULT_CHUNK_SIZE, DEFAULT_OVERLAP)]

NoSearch == [hits |-> <<>>, fault |-> "none"]

\* what the index and document_embeddings hold of document d, as
\* (chunk index, chunk text) pairs, and how many entries and rows
Indexed(coll, embs, d) ==
    LET entries == {e \in coll : e.metadata.document_id = d}
        rows == {r \in embs : r.document_id = d}
    IN  [entries   |-> {<<e.metadata.chunk_index, e.document>> : e \in entries},
         n_entries |-> Cardinality(entries),
         rows      |-> {<<r.chunk_index, r.chunk_text>> : r \in rows},
         n_rows    |-> Cardinality(rows)]

NoReindex == [document_id |-> 0, again |-> FALSE, before |-> Indexed({}, {}, 0),
              failed |-> 0, retried |-> FALSE]

\* the failures of update_document_content that come after its call of
\* delete_document_from_vector_db has returned
AfterDeleteFaults == {"add_index", "add_commit", "final_commit"}

\* a failing call is drawn only while the bound on failures allows one
Allowed(fault) == fault = "none" \/ faults < MaxFaults

\* collection.delete is called, and can fail, only when the document has rows
DeleteFaultApplies(d, fault) ==
    fault = "delete_index" => \E r \in embeddings : r.document_id = d

Count(fault) == IF fault = "none" THEN faults ELSE faults + 1

Without(f, d) == [x \in DOMAIN f \ {d} |-> f[x]]

\* upload_documents, one file: the Document row is flushed (which draws its
\* id), the text is chunked and indexed; a failure of the indexing rolls the
\* session back, the Document row included
UploadDocument ==
    /\ chat_status = "none"
    /\ next_doc_id <= MaxDocuments
    /\ \E up \in Uploads, fault \in AddFaults :
          LET id == next_doc_id
              row == [title    |-> Stem(up.filename),
                      filename |-> up.filename,
                      category |-> up.category,
                      content  |-> up.content]
              content_chunks == DefaultChunks[up.content]
              eff == AddDocumentToVectorDb(collection, embeddings, id, row,
                                           content_chunks, fault)
          IN  /\ Allowed(fault)
              /\ CanMintIds(collection, embeddings, id, Len(content_chunks))
              /\ faults' = Count(fault)
              /\ collection' = eff.collection
              /\ embeddings' = eff.embeddings
              /\ documents' = IF eff.raised THEN documents ELSE documents @@ (id :> row)
              /\ purged' = IF fault = "add_index" THEN purged ELSE purged \ {id}
    /\ next_doc_id' = next_doc_id + 1
    /\ reindexed' = NoReindex
    /\ UNCHANGED <<chat_status, last_search>>
    /\ UNCHANGED <<chunkVars, genVars>>

DeleteDocumentFaults == DeleteFaults \cup {"final_commit"}

\* delete_document (routers/knowledge.py, routers/admin.py): purge the vector
\* entries, then delete the Document row and commit; any exception rolls back
\* and answers HTTP 500
DeleteDocument ==
    /\ chat_status = "none"
    /\ \E d \in DOMAIN documents, fault \in DeleteDocumentFaults :
          LET eff == DeleteDocumentFromVectorDb(collection, embeddings, d, fault)
          IN  /\ Allowed(fault)
              /\ DeleteFaultApplies(d, fault)
              /\ faults' = Count(fault)
              /\ collection' = eff.collection
              /\ embeddings' = eff.embeddings
              /\ documents' = IF eff.raised \/ fault = "final_commit"
                              THEN documents ELSE Without(documents, d)
              /\ purged' = IF eff.raised THEN purged ELSE purged \cup {d}
    /\ reindexed' = NoReindex
    /\ UNCHANGED <<next_doc_id, chat_status, last_search>>
    /\ UNCHANGED <<chunkVars, genVars>>

UpdateFaults == DeleteFaults \cup AddFaults \cup {"final_commit"}

\* update_document_content: purge, set document.content, chunk, index, commit;
\* any exception rolls the session back and is raised again.  The commit
\* inside add_document_to_vector_db also commits the new content.
UpdateDocumentContent ==
    /\ chat_status = "none"
    /\ \E d \in DOMAIN documents, new_content \in NewContents, fault \in UpdateFaults :
          LET del == DeleteDocumentFromVectorDb(collection, embeddings, d, fault)
              row == [documents[d] EXCEPT !.content = new_content]
              content_chunks == DefaultChunks[new_content]
              add == IF Len(content_chunks) > 0
                     THEN AddDocumentToVectorDb(del.collection, del.embeddings, d,
                                                documents[d], content_chunks, fault)
                     ELSE [collection |-> del.collection,
                           embeddings |-> del.embeddings, raised |-> FALSE]
              wrote == Len(content_chunks) > 0 /\ fault # "add_index"
          IN  /\ Allowed(fault)
              /\ DeleteFaultApplies(d, fault)
              /\ fault \in AddFaults \ {"none"} => Len(content_chunks) > 0
              /\ CanMintIds(del.collection, del.embeddings, d, Len(content_chunks))
              /\ faults' = Count(fault)
              /\ reindexed' =
                    IF fault # "none"
                    THEN [NoReindex EXCEPT
                             !.failed = IF fault \in AfterDeleteFaults THEN d ELSE 0]
                    ELSE [document_id |-> d,
                          again       |-> /\ reindexed.document_id = d
                                          /\ new_content = documents[d].content,
                          before      |-> Indexed(collection, embeddings, d),
                          failed      |-> 0,
                          retried     |-> reindexed.failed = d]
              /\ IF del.raised
                 THEN /\ collection' = del.collection
                      /\ embeddings' = del.embeddings
                      /\ UNCHANGED <<documents, purged>>
                 ELSE /\ collection' = add.collection
                      /\ embeddings' = add.embeddings
                      /\ documents' =
                            IF add.raised
                               \/ (Len(content_chunks) = 0 /\ fault = "final_commit")
                            THEN documents
                            ELSE [documents EXCEPT ![d] = row]
                      /\ purged' = IF wrote THEN purged \ {d} ELSE purged \cup {d}
    /\ UNCHANGED <<next_doc_id, chat_status, last_search>>
    /\ UNCHANGED <<chunkVars, genVars>>

\* send_message, first half: search_documents(message, limit), after which
\* generate_response is called with what it returned; an exception that
\* reaches send_message is answered with HTTP 500
SendMessageSearch ==
    /\ chat_status = "none"
    /\ \E fault \in SearchFaults :
       \E hits \in QueryResults(collection, MaxResults, None) :
          LET found == SearchDocuments(documents, hits, fault)
          IN  /\ last_search' = [hits |-> IF fault = "search_index" THEN <<>> ELSE hits,
                                 fault |-> fault]
              /\ relevant_docs' = found.documents
              /\ IF found.raised
                 THEN /\ chat_status' = "http500"
                      /\ UNCHANGED gen_pc
                 ELSE /\ chat_status' = "running"
                      /\ gen_pc' = "idle"
    /\ reindexed' = NoReindex
    /\ UNCHANGED <<operation, settings, providers, context, system_prompt, gen_idx, calls, last_error, result>>
    /\ UNCHANGED <<documents, embeddings, collection, next_doc_id, purged, faults>>
    /\ UNCHANGED chunkVars

\* send_message, second half: generate_response has returned (or raised), the
\* ChatMessage is saved and the response is returned
SendMessageRespond ==
    /\ chat_status = "running"
    /\ gen_pc \in {"done", "raised"}
    /\ chat_status' = IF gen_pc = "done" THEN "ok" ELSE "http500"
    /\ UNCHANGED genVars
    /\ UNCHANGED <<documents, embeddings, collection, next_doc_id, last_search,
                   purged, faults, reindexed>>
    /\ UNCHANGED chunkVars

\* the request is over; the next one starts with fresh services
RequestEnds ==
    /\ chat_status \in {"ok", "http500"}
    /\ chat_status' = "none"
    /\ relevant_docs' = <<>>
    /\ gen_pc' = "off"
    /\ gen_idx' = 0
    /\ calls' = <<>>
    /\ last_error' = None
    /\ result' = NoResult
    /\ context' = ""
    /\ system_prompt' = ""
    /\ last_search' = NoSearch
    /\ UNCHANGED <<operation, settings, providers>>
    /\ UNCHANGED <<documents, embeddings, collection, next_doc_id, purged, faults,
                   reindexed>>
    /\ UNCHANGED chunkVars

KBSettings ==
    {s \in SettingsSpace :
        /\ s["OPENAI_API_KEY"] \in {None, "sk-live"}
        /\ \A k \in (KeyNames \cup {"GROQ_ALTERNATIVE_MODEL"}) \ {"OPENAI_API_KEY"} :
              s[k] = None}

KBInit ==
    /\ documents = <<>>
    /\ embeddings = {}
    /\ collection = {}
    /\ next_doc_id = 1
    /\ chat_status = "none"
    /\ last_search = NoSearch
    /\ purged = {}
    /\ faults = 0
    /\ reindexed = NoReindex
    /\ operation = "generate_response"
    /\ settings \in KBSettings
    /\ providers = InitializeProviders(settings)
    /\ relevant_docs = <<>>
    /\ context = ""
    /\ system_prompt = ""
    /\ gen_pc = "off"
    /\ gen_idx = 0
    /\ calls = <<>>
    /\ last_error = None
    /\ result = NoResult

KBParked ==
    /\ documents = <<>>
    /\ embeddings = {}
    /\ collection = {}
    /\ next_doc_id = 1
    /\ chat_status = "off"
    /\ last_search = NoSearch
    /\ purged = {}
    /\ faults = 0
    /\ reindexed = NoReindex

-----------------------------------------------------------------------------
(* Specification of one chunk_text call on bounded inputs, plus two calls   *)
(* with the default parameters: the documented example                     *)
(* chunk("A. B. C.", 1000, 200) and a text of three 900-character          *)
(* sentences.                                                              *)

ExampleText == "A. B. C."

ThreeSentences ==
    Repeat("x", 900) \o ". " \o Repeat("y", 900) \o ". " \o Repeat("z", 900)

ChunkInputs ==
    (Strings(MaxTextLen) \X (1..MaxChunkSize) \X (0..MaxOverlap))
        \cup {<<ExampleText, DEFAULT_CHUNK_SIZE, DEFAULT_OVERLAP>>,
              <<ThreeSentences, DEFAULT_CHUNK_SIZE, DEFAULT_OVERLAP>>}

ChunkInit ==
    /\ \E in \in ChunkInputs :
          /\ text = in[1]
          /\ chunk_size = in[2]
          /\ overlap = in[3]
    /\ chunks = <<>>
    /\ chunk_pc = "ready"

ChunkParked ==
    /\ text = ""
    /\ chunk_size = DEFAULT_CHUNK_SIZE
    /\ overlap = DEFAULT_OVERLAP
    /\ chunks = <<>>
    /\ chunk_pc = "off"

CallChunkText ==
    /\ chunk_pc = "ready"
    /\ chunks' = ChunkText(text, chunk_size, overlap)
    /\ chunk_pc' = "done"
    /\ UNCHANGED <<text, chunk_size, overlap>>
    /\ UNCHANGED <<genVars, kbVars>>

NextChunk == CallChunkText

InitChunk == ChunkInit /\ GenParked /\ KBParked

SpecChunk == InitChunk /\ [][NextChunk]_vars

-----------------------------------------------------------------------------
(* Specification of one generate_response call, for every provider         *)
(* configuration and every outcome of every provider call.                 *)

NextCascade ==
    \/ GenerateResponseStart
    \/ IssueProviderCall
    \/ ProviderCallCompletes
    \/ ProviderNeverAnswers
    \/ ReturnFallback

InitCascade == GenInit /\ ChunkParked /\ KBParked

SpecCascade == InitCascade /\ [][NextCascade]_vars

-----------------------------------------------------------------------------
(* Specification of one generate_summary or categorize_document call, for  *)
(* every provider configuration and every outcome of every provider call.  *)

NextDocAI ==
    \/ GenerateSummaryStart
    \/ GenerateSummaryIssueCall
    \/ GenerateSummaryCallCompletes
    \/ GenerateSummaryAllFailed
    \/ CategorizeDocumentStart
    \/ CategorizeDocumentIssueCall
    \/ CategorizeDocumentCallCompletes
    \/ CategorizeDocumentAllFailed

InitDocAI == DocInit /\ ChunkParked /\ KBParked

SpecDocAI == InitDocAI /\ [][NextDocAI]_vars

-----------------------------------------------------------------------------
(* Specification of the knowledge base: uploads, deletions, re-indexing    *)
(* and chat requests, each call of the index or of the database failing    *)
(* or not.  generate_response reads nothing of the knowledge base, so the   *)
(* operations on it are not interleaved with a chat request in progress.   *)

NextKB ==
    \/ UploadDocument
    \/ DeleteDocument
    \/ UpdateDocumentContent
    \/ SendMessageSearch
    \/ GenerateResponseStart
    \/ IssueProviderCall
    \/ ProviderCallCompletes
    \/ ReturnFallback
    \/ SendMessageRespond
    \/ RequestEnds

InitKB == KBInit /\ ChunkParked

SpecKB == InitKB /\ [][NextKB]_vars

-----------------------------------------------------------------------------
(* Properties of chunk_text.                                               *)

\* the sentence units of the input
Units == Split(text)

\* C9: every chunk returned by chunk_text, except possibly the last, has length
\* <= chunk_size unless it holds a sentence unit too long for a chunk.
\* (The claim exempts only a chunk made of one unit longer than chunk_size;
\* this exempts every chunk in which a unit lies that, with its separator,
\* is longer than chunk_size: a violation of this violates the claim.)
C9_ChunkSizeBound ==
    chunk_pc = "done" =>
        \A i \in 1..(Len(chunks) - 1) :
            \/ Len(chunks[i]) <= chunk_size
            \/ \E j \in 1..Len(Units) :
                  Len(Units[j] \o ". ") > chunk_size /\ Contains(chunks[i], Units[j])

\* C10: a non-empty text shorter than chunk_size comes back as exactly one
\* chunk equal to the text; chunk_text("A. B. C.", 1000, 200) = ["A. B. C."].
C10_ShortTextOneChunk ==
    (chunk_pc = "done" /\ text # "" /\ Len(text) < chunk_size) =>
        chunks = <<text>>

\* s.lstrip()
LStrip(s) ==
    LET solid == {i \in 1..Len(s) : SubSeq(s, i, i) \notin Whitespace}
    IN  IF solid = {} THEN "" ELSE SubSeq(s, Min(solid), Len(s))

EndsWith(s, t) ==
    Len(t) <= Len(s) /\ SubSeq(s, Len(s) - Len(t) + 1, Len(s)) = t

\* the units a..b as chunk_text lays them out: each followed by ". ", the
\* space after the last one removed
RECURSIVE JoinUnits(_, _, _)
JoinUnits(us, a, b) ==
    IF a > b THEN "" ELSE us[a] \o ". " \o JoinUnits(us, a + 1, b)

Body(us, a, b) ==
    LET joined == JoinUnits(us, a, b) IN SubSeq(joined, 1, Len(joined) - 1)

Kth(B, k) == CHOOSE x \in B : Cardinality({y \in B : y <= x}) = k

\* the ways of cutting the units into Len(chunks) consecutive non-empty runs,
\* each given by the set of the last unit of every run
Cuts ==
    {B \in SUBSET (1..Len(Units)) :
        Cardinality(B) = Len(chunks) /\ Len(Units) \in B}

\* chunk k ends with the units of run k, in order (after an overlap prefix)
RunsCovered(B, trimmed) ==
    \A k \in 1..Len(chunks) :
        LET a == IF k = 1 THEN 1 ELSE Kth(B, k - 1) + 1
            body == Body(Units, a, Kth(B, k))
        IN  EndsWith(chunks[k], IF trimmed THEN LStrip(body) ELSE body)

\* C11 as stated: every unit of the text appears, in input order, in the
\* chunks: the units can be cut into consecutive runs, one per chunk, such
\* that each chunk is an overlap prefix followed by the units of its run.
C11_UnitsAppearVerbatim ==
    (chunk_pc = "done" /\ text # "") => \E B \in Cuts : RunsCovered(B, FALSE)

\* C11 as amended: every unit of the text appears, in input order, in the
\* chunks, except that whitespace at the very start of a chunk is trimmed:
\* the units can be cut into consecutive runs, one per chunk, such that each
\* chunk ends with the units of its run with leading whitespace removed.
C11_NoUnitDropped ==
    (chunk_pc = "done" /\ text # "") => \E B \in Cuts : RunsCovered(B, TRUE)

\* a text that starts with whitespace, of three units or more, split into
\* two chunks or more
C11_Witness ==
    /\ chunk_pc = "done"
    /\ Len(text) > 0
    /\ SubSeq(text, 1, 1) = " "
    /\ Len(Units) >= 3
    /\ Len(chunks) >= 2

\* the last n characters of s, all of s when it has fewer
TrailingChars(s, n) ==
    IF n >= Len(s) THEN s ELSE SubSeq(s, Len(s) - n + 1, Len(s))

\* C28: whenever chunk_text closes a chunk because the next sentence unit
\* would exceed chunk_size, the next chunk begins with the trailing `overlap`
\* characters of the chunk just closed, followed by the new unit.  The chunk
\* just closed is taken either as returned or with its trailing separator.
C28_NextChunkStartsWithOverlap ==
    (chunk_pc = "done" /\ text # "") =>
        LET seeds == ChunkSeeds(Split(text), 1, "", chunk_size, overlap)
        IN  \A k \in 1..Len(seeds) :
                \/ seeds[k].seeded =
                      TrailingChars(seeds[k].closed, overlap)
                          \o seeds[k].unit \o ". "
                \/ seeds[k].seeded =
                      TrailingChars(seeds[k].buffer, overlap)
                          \o seeds[k].unit \o ". "

-----------------------------------------------------------------------------
(* Properties of generate_response.                                        *)

Failed(o) == o.kind = "raise" \/ (o.kind = "return" /\ ~Truthy(o.value))

NoCallSucceeded == \A j \in 1..Len(calls) : Failed(calls[j].outcome)

\* C1: the bindings are called in list order, every call before the latest one
\* failed, and once a call returns non-empty text generate_response returns that
\* text with that binding's name and calls no later binding.
C1_FirstSuccessWins ==
    /\ gen_pc # "raised"
    /\ Len(calls) <= Len(providers)
    /\ \A j \in 1..Len(calls) :
          /\ calls[j].name = providers[j].name
          /\ j < Len(calls) => Failed(calls[j].outcome)
    /\ (Len(calls) > 0 /\ calls[Len(calls)].outcome.kind = "return"
            /\ Truthy(calls[Len(calls)].outcome.value)) =>
          /\ gen_pc = "done"
          /\ result.message = calls[Len(calls)].outcome.value
          /\ result.provider = providers[Len(calls)].name
    /\ (gen_pc = "done" /\ result.provider # "fallback") =>
          /\ Len(calls) > 0
          /\ calls[Len(calls)].outcome.kind = "return"
          /\ Truthy(calls[Len(calls)].outcome.value)

\* [P1 raises, P2 answers, P3 configured]: P2's answer is returned, P3 not called
C1_Witness ==
    /\ gen_pc = "done"
    /\ Len(providers) >= 3
    /\ Len(calls) = 2
    /\ calls[1].outcome.kind = "raise"
    /\ calls[2].outcome = [kind |-> "return", value |-> "Answer B"]
    /\ result.message = "Answer B"
    /\ result.provider = providers[2].name

\* C2: when every provider call raised or returned empty text, generate_response
\* returns normally (it never raises) a result whose provider is "fallback" and
\* whose message is not empty.
C2_ExhaustionReturnsFallback ==
    /\ gen_pc # "raised"
    /\ (gen_pc = "done" /\ NoCallSucceeded) =>
          /\ result.provider = "fallback"
          /\ result.message # None
          /\ Len(result.message) > 0

\* two bindings, one raising and one returning empty text, then the fallback
C2_Witness ==
    /\ gen_pc = "done"
    /\ Len(providers) >= 2
    /\ Len(calls) = Len(providers)
    /\ NoCallSucceeded
    /\ \E j \in 1..Len(calls) : calls[j].outcome.kind = "raise"
    /\ \E j \in 1..Len(calls) : calls[j].outcome = [kind |-> "return", value |-> ""]
    /\ result.provider = "fallback"

\* C3: with no provider configured generate_response calls no provider and
\* returns (never raises) a result with provider "fallback" whose message says
\* that no AI providers are configured.
C3_NoProvidersConfigured ==
    Len(providers) = 0 =>
        /\ calls = <<>>
        /\ gen_pc # "raised"
        /\ gen_pc = "done" =>
              /\ result.provider = "fallback"
              /\ Contains(result.message, "No AI providers are configured")

\* no credential is usable, snippets were retrieved, the call has returned
C3_Witness ==
    /\ gen_pc = "done"
    /\ Len(providers) = 0
    /\ Len(relevant_docs) > 0
    /\ result.provider = "fallback"

Exhausted == gen_pc = "done" /\ NoCallSucceeded

\* whether the fallback message mentions the titles of snippets 1..n
MentionsTitles(n) ==
    \A i \in 1..n :
        "title" \in DOMAIN relevant_docs[i] =>
            Contains(result.message, relevant_docs[i].title)

\* C13 as stated: when no provider succeeds and snippets were retrieved, the
\* fallback message mentions the title of every retrieved snippet, whichever
\* message variant is used, and provider is "fallback".
C13_FallbackMentionsEveryTitle ==
    (Exhausted /\ Len(relevant_docs) > 0) =>
        /\ result.provider = "fallback"
        /\ MentionsTitles(Len(relevant_docs))

\* C13 as amended: when no provider succeeds and snippets were retrieved, the
\* fallback message mentions the titles of the first three retrieved snippets
\* ("Untitled" for one without a title), whichever message variant is used,
\* and provider is "fallback".
C13_FallbackMentionsFirstTitles ==
    (Exhausted /\ Len(relevant_docs) > 0) =>
        /\ result.provider = "fallback"
        /\ MentionsTitles(Len(Take(relevant_docs, 3)))
        /\ (\E i \in 1..Len(Take(relevant_docs, 3)) :
                "title" \notin DOMAIN relevant_docs[i]) =>
              Contains(result.message, "Untitled")

\* four snippets retrieved, every provider failed, the last one on its API key
C13_Witness ==
    /\ Exhausted
    /\ Len(providers) >= 2
    /\ Len(relevant_docs) >= 4
    /\ last_error # None
    /\ Contains(last_error, "API key")
    /\ Contains(result.message, "verify API keys")
    /\ ~Contains(result.message, "Leave Rules")
    /\ Contains(result.message, "Untitled")

\* every provider call raised, and at least one was made
EveryCallRaised ==
    /\ Len(calls) > 0
    /\ Len(calls) = Len(providers)
    /\ \A j \in 1..Len(calls) : calls[j].outcome.kind = "raise"

\* C14: when the provider call raises, generate_response returns a result
\* that has an "error" field, whose message contains "I apologize, but I'm
\* having trouble" and whose sources list is empty.
C14_ErrorResultShape ==
    (gen_pc = "done" /\ EveryCallRaised) =>
        /\ "error" \in DOMAIN result
        /\ Contains(result.message, "I apologize, but I'm having trouble")
        /\ result.sources = <<>>

\* C17: the sources of every generate_response result, success or fallback,
\* are the first min(3, n) retrieved snippets in retrieval order, each with
\* that snippet's title, category and relevance value unchanged (the defaults
\* "Untitled", "document" and 0 for a key the snippet lacks); there are none
\* when no snippets were given.
C17_SourcesAreTopThree ==
    gen_pc = "done" =>
        /\ Len(result.sources) <= 3
        /\ Len(result.sources) =
              (IF Len(relevant_docs) < 3 THEN Len(relevant_docs) ELSE 3)
        /\ \A i \in 1..Len(result.sources) :
              LET doc == relevant_docs[i]
                  src == result.sources[i]
              IN  /\ DOMAIN src = {"title", "type", "relevance"}
                  /\ src.title = (IF "title" \in DOMAIN doc
                                  THEN doc.title ELSE "Untitled")
                  /\ src.type = (IF "category" \in DOMAIN doc
                                 THEN doc.category ELSE "document")
                  /\ src.relevance = (IF "relevance_score" \in DOMAIN doc
                                      THEN doc.relevance_score ELSE 0)

\* four snippets were retrieved and a provider answered: three sources
C17_Witness ==
    /\ gen_pc = "done"
    /\ Len(relevant_docs) >= 4
    /\ result.provider \notin {None, "fallback"}
    /\ Len(result.sources) = 3
    /\ result.sources[2].title = "Travel Guide"

\* a snippet as the context block shows it: content longer than 1000
\* characters cut to its first 1000 characters and "...", shorter unchanged
ExpectedBlock(doc) ==
    LET content == IF "content" \in DOMAIN doc THEN doc.content ELSE ""
    IN  "Document: " \o (IF "title" \in DOMAIN doc THEN doc.title ELSE "Untitled")
            \o "\nContent: "
            \o (IF Len(content) <= 1000 THEN content
                ELSE SubSeq(content, 1, 1000) \o "...")
            \o "\n"

\* the blocks of snippets i, i+1, ... up to the fifth, a line break between
RECURSIVE ExpectedFrom(_, _)
ExpectedFrom(docs, i) ==
    IF i > Len(docs) \/ i > 5 THEN ""
    ELSE (IF i > 1 THEN "\n" ELSE "") \o ExpectedBlock(docs[i])
             \o ExpectedFrom(docs, i + 1)

ExpectedContexts == [docs \in SnippetLists |-> ExpectedFrom(docs, 1)]

\* C18: the context block holds the first 5 snippets only, in order; content
\* longer than 1000 characters is cut to its first 1000 characters followed
\* by "...", shorter content is unchanged; no snippets give the empty string,
\* which selects the "no context found" system prompt.
C18_ContextIsTopFiveTruncated ==
    gen_pc \in {"loop", "await", "done"} =>
        /\ context = ExpectedContexts[relevant_docs]
        /\ Len(relevant_docs) = 0 =>
              /\ context = ""
              /\ EndsWith(system_prompt,
                          "suggest how the user might find more specific information.")
        /\ Len(relevant_docs) > 0 =>
              /\ context # ""
              /\ EndsWith(system_prompt, context
                    \o "\n\nPlease answer the user's question based on this context.")

\* six snippets retrieved, among them contents of exactly 1000 characters
\* and of more; the context holds five, the long ones cut
C18_Witness ==
    /\ gen_pc = "done"
    /\ Len(relevant_docs) >= 6
    /\ Len(relevant_docs[2].content) > 1000
    /\ Len(relevant_docs[4].content) = 1000
    /\ Len(context) < Len(relevant_docs[2].content) + Len(relevant_docs[4].content)
                         + Len(relevant_docs[6].content)
    /\ Len(context) > 2000

\* C21: a provider call that never completes is given up after a bounded
\* wait and the cascade goes on to the next binding or to the fallback: while
\* generate_response waits on such a call it still has a step to take.
C21_HungCallIsGivenUp ==
    gen_pc = "hung" => ENABLED NextCascade

\* the calls of this generate_response that have not finished
InFlight == {j \in 1..Len(calls) : calls[j].outcome = Pending}

\* C23: within one generate_response the bindings are called one at a time
\* in list order: a binding is called only after the call of every earlier
\* binding finished with an exception or empty text, at most one call is in
\* flight, and no binding is called twice.
C23_CallsSequentialNoRetry ==
    /\ Len(calls) <= Len(providers)
    /\ \A j \in 1..Len(calls) :
          /\ calls[j].name = providers[j].name
          /\ j < Len(calls) => Failed(calls[j].outcome)
    /\ \A i, j \in 1..Len(calls) : i # j => calls[i].name # calls[j].name
    /\ Cardinality(InFlight) <= 1
    /\ InFlight # {} <=> gen_pc \in {"await", "hung"}

\* the third binding's call is in flight after the first raised and the
\* second returned empty text
C23_Witness ==
    /\ gen_pc = "await"
    /\ Len(calls) = 3
    /\ calls[1].outcome.kind = "raise"
    /\ calls[2].outcome = [kind |-> "return", value |-> ""]
    /\ InFlight = {3}

\* error texts a provider may raise in another run of the same request
OtherErrorTexts ==
    ErrorTexts \cup {"Invalid API key", "Rate limit exceeded",
                     "Internal server error"}

RaisedTexts ==
    {calls[j].outcome.value :
        j \in {k \in 1..Len(calls) : calls[k].outcome.kind = "raise"}}

\* C22 as stated: the message of generate_response never contains the error
\* text raised by a provider, and a run that differs only in the text of the
\* provider errors gets the same message, so the message exposes no part of
\* that text.
C22_MessageIndependentOfErrorText ==
    gen_pc = "done" =>
        /\ \A e \in RaisedTexts : ~Contains(result.message, e)
        /\ (Exhausted /\ last_error # None) =>
              \A e \in OtherErrorTexts :
                  result.message =
                      GenerateFallbackResponse(providers, relevant_docs, e).message

\* C22 as amended: the message of generate_response never contains the
\* error text raised by a provider, and a run that differs only in the text of
\* the provider errors gets the same message unless the two last error texts
\* differ in containing "API key".
C22_MessageHidesErrorText ==
    gen_pc = "done" =>
        /\ \A e \in RaisedTexts : ~Contains(result.message, e)
        /\ (Exhausted /\ last_error # None) =>
              \A e \in OtherErrorTexts :
                  (Contains(e, "API key") <=> Contains(last_error, "API key")) =>
                      result.message =
                          GenerateFallbackResponse(providers, relevant_docs, e).message

\* two providers raised different texts, snippets were retrieved, and the
\* fallback answer is the one a run with other error texts gets
C22_Witness ==
    /\ Exhausted
    /\ Len(relevant_docs) > 0
    /\ RaisedTexts = ErrorTexts
    /\ last_error = "Connection timed out"
    /\ result.provider = "fallback"
    /\ result.message =
          GenerateFallbackResponse(providers, relevant_docs,
                                   "Rate limit exceeded").message

PriorityOrder == <<"openai", "anthropic", "openrouter-gpt4", "openrouter-claude",
                   "groq-llama", "groq-alternative">>

\* the credential a binding's client is built with
KeyOf(name) ==
    CASE name = "openai"                                   -> "OPENAI_API_KEY"
      [] name = "anthropic"                                -> "ANTHROPIC_API_KEY"
      [] name \in {"openrouter-gpt4", "openrouter-claude"} -> "OPENROUTER_API_KEY"
      [] name \in {"groq-llama", "groq-alternative"}       -> "GROQ_API_KEY"

Priority(name) == CHOOSE p \in 1..Len(PriorityOrder) : PriorityOrder[p] = name

\* C26: the provider list holds a binding only for a provider whose API key
\* is configured (present and not the placeholder), its bindings are in the
\* priority order openai, anthropic, openrouter-gpt4, openrouter-claude,
\* groq-llama, groq-alternative, and the list is never changed by a call.
C26_ProviderListWellFormed ==
    /\ \A j \in 1..Len(providers) :
          /\ Truthy(settings[KeyOf(providers[j].name)])
          /\ settings[KeyOf(providers[j].name)] # Placeholder(KeyOf(providers[j].name))
    /\ \A i, j \in 1..Len(providers) :
          i < j => Priority(providers[i].name) < Priority(providers[j].name)
    /\ providers = InitializeProviders(settings)

\* the text of the last exception a provider call raised, None without one
LastRaisedText ==
    LET raised == {j \in 1..Len(calls) : calls[j].outcome.kind = "raise"}
    IN  IF raised = {} THEN None
        ELSE calls[CHOOSE j \in raised : \A k \in raised : k <= j].outcome.value

NoProvidersVariant == Contains(result.message, "No AI providers are configured")

VerifyKeysVariant ==
    Contains(result.message, "all configured AI providers failed")

GenericVariant ==
    Contains(result.message, "temporarily unable to process your request")

\* C25 as stated: the fallback message has exactly two variants chosen only
\* by whether the provider list is empty: the no-providers-configured message
\* when it is empty, and otherwise the generic temporary-unavailability
\* message, whatever errors the providers raised.
C25_TwoFallbackVariants ==
    Exhausted =>
        /\ NoProvidersVariant <=> Len(providers) = 0
        /\ GenericVariant <=> Len(providers) > 0
        /\ ~VerifyKeysVariant

\* C25 as amended: the fallback message has exactly three variants: the
\* no-providers-configured message when the provider list is empty; otherwise
\* the verify-API-keys message when the text of the last error raised contains
\* "API key"; and otherwise the generic temporary-unavailability message.
C25_ThreeFallbackVariants ==
    Exhausted =>
        LET keys == LastRaisedText # None /\ Contains(LastRaisedText, "API key")
        IN  /\ NoProvidersVariant <=> Len(providers) = 0
            /\ VerifyKeysVariant <=> (Len(providers) > 0 /\ keys)
            /\ GenericVariant <=> (Len(providers) > 0 /\ ~keys)

\* the first provider timed out and the last one rejected the API key: the
\* verify-API-keys message is returned
C25_Witness ==
    /\ Exhausted
    /\ Len(calls) >= 2
    /\ calls[1].outcome = [kind |-> "raise", value |-> "Connection timed out"]
    /\ LastRaisedText = "Incorrect API key provided"
    /\ VerifyKeysVariant
    /\ ~GenericVariant

-----------------------------------------------------------------------------
(* Properties of generate_summary and categorize_document.                 *)

\* C15: when every provider call raises, generate_summary returns
\* "Summary not available" and categorize_document returns "other"; neither
\* raises to its caller.
C15_DefaultsWhenAllProvidersRaise ==
    EveryCallRaised =>
        /\ gen_pc # "raised"
        /\ gen_pc = "done" =>
              result = DocResult(IF operation = "generate_summary"
                                 THEN "Summary not available" ELSE "other")

\* the reply that categorize_document returned on, trimmed and lower-cased
NormalisedReply == Lower(Strip(calls[Len(calls)].outcome.value))

\* C24: generate_summary and categorize_document apply the failover rule of
\* generate_response: a binding whose call raises or yields empty text is
\* skipped and the next one is tried, the first non-empty result ends the
\* cascade, and an empty provider list or total failure is reported as
\* exhaustion.
C24_SameFailoverRule ==
    /\ Len(calls) <= Len(providers)
    /\ \A j \in 1..Len(calls) :
          /\ calls[j].name = providers[j].name
          /\ j < Len(calls) => Failed(calls[j].outcome)
    /\ gen_pc = "done" =>
          /\ Len(calls) > 0
          /\ Succeeded(calls[Len(calls)].outcome)
    /\ gen_pc = "raised" =>
          /\ Len(calls) = Len(providers)
          /\ NoCallSucceeded

\* C16: whenever categorize_document returns, the value is one of policy,
\* procedure, manual, guide, other: a reply that, trimmed and lower-cased, is
\* none of these gives "other", and one that is gives that category.
C16_CategoryIsValid ==
    (operation = "categorize_document" /\ gen_pc = "done") =>
        /\ result.value \in {"policy", "procedure", "manual", "guide", "other"}
        /\ NormalisedReply \in {"policy", "procedure", "manual", "guide", "other"}
              => result.value = NormalisedReply
        /\ NormalisedReply \notin {"policy", "procedure", "manual", "guide", "other"}
              => result.value = "other"

\* the first provider raised, the second replied with no category name
C16_Witness ==
    /\ operation = "categorize_document"
    /\ gen_pc = "done"
    /\ Len(calls) = 2
    /\ calls[1].outcome.kind = "raise"
    /\ calls[2].outcome.value = "invalid_category"
    /\ result.value = "other"

-----------------------------------------------------------------------------
(* Properties of the knowledge base and of the chat request.               *)

ChatSearched == chat_status \in {"running", "ok"}

\* the hits of the latest search whose Document row exists
LiveHits ==
    SelectSeq(last_search.hits,
              LAMBDA h : h[1].metadata.document_id \in DOMAIN documents)

\* C4: search_documents never raises; when the index query or a document
\* lookup fails it returns the empty list, and send_message goes on to call
\* generate_response and gets an answer.
C4_SearchFailureIsEmptyResult ==
    /\ chat_status # "http500"
    /\ (ChatSearched /\ last_search.fault # "none") =>
          /\ relevant_docs = <<>>
          /\ gen_pc \in {"idle", "loop", "await", "done"}
          /\ gen_pc = "done" =>
                (result.message # None /\ Len(result.message) > 0)

\* the index returned hits, a document lookup failed, the chat was answered
\* by a provider
C4_Witness ==
    /\ chat_status = "ok"
    /\ last_search.fault = "search_db"
    /\ Len(last_search.hits) > 0
    /\ relevant_docs = <<>>
    /\ result.provider = "openai"

\* C5: a hit whose document_id has no Document row is left out of the result
\* of search_documents, which still returns every other hit, in order, and
\* does not raise.
C5_StaleHitsDropped ==
    /\ chat_status # "http500"
    /\ (ChatSearched /\ last_search.fault = "none") =>
          /\ Len(relevant_docs) = Len(LiveHits)
          /\ \A i \in 1..Len(relevant_docs) :
                /\ relevant_docs[i].id \in DOMAIN documents
                /\ relevant_docs[i].id = LiveHits[i][1].metadata.document_id
                /\ relevant_docs[i].content = LiveHits[i][1].document
                /\ relevant_docs[i].chunk_index = LiveHits[i][1].metadata.chunk_index

\* the index returned a stale hit ahead of a live one; the live one came back
C5_Witness ==
    /\ ChatSearched
    /\ last_search.fault = "none"
    /\ Len(last_search.hits) = 2
    /\ last_search.hits[1][1].metadata.document_id \notin DOMAIN documents
    /\ last_search.hits[2][1].metadata.document_id \in DOMAIN documents
    /\ Len(relevant_docs) = 1

Clamp01(x) == IF x < 0 THEN 0 ELSE IF x > 1 THEN 1 ELSE x

\* C6: the relevance_score of every snippet returned by search_documents is
\* 1 - distance clamped into [0,1], so it is never below 0 nor above 1.
C6_RelevanceClamped ==
    (ChatSearched /\ last_search.fault = "none") =>
        \A i \in 1..Len(relevant_docs) :
            /\ relevant_docs[i].relevance_score >= 0
            /\ relevant_docs[i].relevance_score <= 1
            /\ relevant_docs[i].relevance_score = Clamp01(1 - LiveHits[i][2])

\* C7: once delete_document_from_vector_db(d) has returned, and until d is
\* indexed again, the vector index holds no entry of d and no search returns
\* a snippet of d.
C7_PurgedDocumentNotIndexed ==
    \A d \in purged :
        /\ \A e \in collection : e.metadata.document_id # d
        /\ ChatSearched =>
              \A i \in 1..Len(relevant_docs) : relevant_docs[i].id # d

RowsOf(d) == {r \in embeddings : r.document_id = d}

\* C8: the chunk indices persisted for a document in document_embeddings are
\* exactly 0..n-1, n the number of its rows: no gap and no duplicate.
C8_ChunkIndicesContiguous ==
    \A d \in {r.document_id : r \in embeddings} :
        {r.chunk_index : r \in RowsOf(d)} = 0..(Cardinality(RowsOf(d)) - 1)

\* a document uploaded with the short text was re-indexed with the long one
\* and holds its two chunks, while another document was purged
C8_Witness ==
    \E d \in DOMAIN documents :
        /\ documents[d].content = LongText
        /\ documents[d].filename = "leave.txt"
        /\ Cardinality(RowsOf(d)) = 2
        /\ purged # {}

\* C12: add_document_to_vector_db is all-or-nothing.  In an upload the call
\* works on the document id just drawn, so after an upload whose call failed
\* neither the vector index nor document_embeddings holds a chunk of that id.
C12_AddIsAllOrNothing ==
    [][(next_doc_id' = next_doc_id + 1 /\ faults' = faults + 1) =>
            /\ \A e \in collection' : e.metadata.document_id # next_doc_id
            /\ \A r \in embeddings' : r.document_id # next_doc_id]_vars

\* C19: re-indexing a document twice with the same text leaves the same
\* (chunk index, chunk text) entries, in the index and in document_embeddings,
\* as re-indexing it once.  (That chunk_text returns the same chunks for the
\* same arguments is what makes the second result equal to the first.)
C19_ReindexIsIdempotent ==
    reindexed.again =>
        Indexed(collection, embeddings, reindexed.document_id) = reindexed.before

\* a document re-indexed with the long text, twice in a row
C19_Witness ==
    /\ reindexed.again
    /\ documents[reindexed.document_id].content = LongText
    /\ reindexed.before.n_rows = 2
    /\ Indexed(collection, embeddings, reindexed.document_id).n_entries >= 2

\* (chunk index, chunk text) pairs of the chunks of a text
ChunkPairs(t) == {<<i - 1, DefaultChunks[t][i]>> : i \in 1..Len(DefaultChunks[t])}

\* C20: when update_document_content(d, t) has returned, the indexed entries
\* of d, and its embedding references, are exactly the chunks of
\* chunk_text(t): every prior one was deleted before the new ones were added.
C20_ReindexReplacesEntries ==
    reindexed.document_id # 0 =>
        LET d == reindexed.document_id
            now == Indexed(collection, embeddings, d)
            t == documents[d].content
        IN  /\ now.entries = ChunkPairs(t)
            /\ now.n_entries = Len(DefaultChunks[t])
            /\ now.rows = ChunkPairs(t)
            /\ now.n_rows = Len(DefaultChunks[t])

\* the ids of the entries in the vector index
EntryIds == {e.id : e \in collection}

\* the embedding_id values of the document_embeddings table
EmbeddingIds == {r.embedding_id : r \in embeddings}

\* C27: in every state reached by failure-free ingest, re-index and purge
\* operations the entry ids of the vector index are the embedding_id values of
\* the embedding-reference table: every indexed chunk has a reference and
\* every reference points to an existing entry.
C27_IndexMatchesReferences ==
    faults = 0 =>
        /\ EntryIds = EmbeddingIds
        /\ Cardinality(collection) = Cardinality(embeddings)

\* without any failure one document was purged and another re-indexed, and a
\* document is indexed under several chunks
C27_Witness ==
    /\ faults = 0
    /\ \E d \in purged : d \notin DOMAIN documents
    /\ reindexed.document_id \in DOMAIN documents
    /\ Cardinality(EntryIds) >= 2
    /\ EntryIds = EmbeddingIds

\* C29: an update_document_content that fails after its delete step leaves
\* the document with no vector entries and no embedding references, and the
\* next successful update_document_content of that document leaves exactly
\* the chunks of the new text indexed.
C29_FailedUpdateLeavesNothing ==
    /\ reindexed.failed # 0 =>
          LET now == Indexed(collection, embeddings, reindexed.failed)
          IN  now.n_entries = 0 /\ now.n_rows = 0
    /\ reindexed.retried =>
          LET d == reindexed.document_id
              now == Indexed(collection, embeddings, d)
              t == documents[d].content
          IN  /\ now.entries = ChunkPairs(t)
              /\ now.n_entries = Len(DefaultChunks[t])
              /\ now.rows = ChunkPairs(t)
              /\ now.n_rows = Len(DefaultChunks[t])

DocumentIds == 1..MaxDocuments

\* the step changes what the index or document_embeddings hold of document d
Touches(d) ==
    \/ {e \in collection' : e.metadata.document_id = d}
            # {e \in collection : e.metadata.document_id = d}
    \/ {r \in embeddings' : r.document_id = d}
            # {r \in embeddings : r.document_id = d}

\* every document is indexed under exactly the chunks of the text its last
\* upload or re-index gave it, and a deleted document under none
HoldsOwnChunks ==
    \A d \in DocumentIds :
        LET now == Indexed(collection, embeddings, d)
            expected == IF d \in DOMAIN documents
                        THEN ChunkPairs(documents[d].content) ELSE {}
        IN  /\ now.entries = expected
            /\ now.rows = expected
            /\ now.n_entries = Cardinality(expected)
            /\ now.n_rows = Cardinality(expected)

\* C30: interleaved ingest, re-index and purge operations on different
\* documents do not interfere: an operation changes the entries and references
\* of one document only, no two entries share a chunk id, and after failure-free
\* operations every document holds exactly the entries its own last operation
\* produced, whatever the interleaving.
C30_NoInterference ==
    [][/\ \A d1, d2 \in DocumentIds :
             (Touches(d1) /\ Touches(d2)) => d1 = d2
       /\ \A e1, e2 \in collection' : e1.id = e2.id => e1 = e2
       /\ \A r1, r2 \in embeddings' : r1.embedding_id = r2.embedding_id => r1 = r2
       /\ faults' = 0 => HoldsOwnChunks']_vars

\* two documents with different texts are indexed, the first one re-indexed
\* after the second one was ingested, and no operation failed
C30_Witness ==
    /\ faults = 0
    /\ DOMAIN documents = {1, 2}
    /\ reindexed.document_id = 1
    /\ documents[1].content # documents[2].content
    /\ Indexed(collection, embeddings, 1).n_entries >= 2
    /\ Indexed(collection, embeddings, 2).n_entries >= 1
    /\ HoldsOwnChunks

====
